---- MODULE Spec2Model ----
(***************************************************************************)
(* The dependency graph builder of graphbuilder.py: one scan of a workbook *)
(* (extract_formulas_and_build_dependencies), the function usage counter   *)
(* (stat_functions, functions_dict) and the top-degree part of the report  *)
(* (print_summary).                                                        *)
(*                                                                         *)
(* Strings are sequences of one-character strings, so that the tests the   *)
(* code makes on them ('"!" not in ref', split("!")[0], startswith("="),   *)
(* the regular expression [A-Z]+\( ) are computed and not assumed.         *)
(***************************************************************************)
EXTENDS Naturals, Sequences, FiniteSets, Bags, TLC

VARIABLES wb, idx, graph, functions_dict, report, pc, prev, scanned, calls

vars == <<wb, idx, graph, functions_dict, report, pc, prev, scanned, calls>>

(***************************************************************************)
(* Bounds of the model.                                                    *)
(***************************************************************************)
\* cells of one workbook, over all its sheets
MaxCells == 3
\* calls of extract_formulas_and_build_dependencies in one process
MaxCalls == 2
\* cells of one workbook when the function is called several times
MaxCallCells == 2

(***************************************************************************)
(* Characters and strings.                                                 *)
(***************************************************************************)
Alphabet ==
    <<"A", "B", "C", "D", "E", "F", "G", "H", "I", "J", "K", "L", "M",
      "N", "O", "P", "Q", "R", "S", "T", "U", "V", "W", "X", "Y", "Z">>

DigitChars == <<"0", "1", "2", "3", "4", "5", "6", "7", "8", "9">>

Upper == {Alphabet[i] : i \in 1..26}

Digits == {DigitChars[i] : i \in 1..10}

Range(s) == {s[i] : i \in 1..Len(s)}

\* Python's  c in s  for a one-character c
Contains(s, c) == \E i \in 1..Len(s) : s[i] = c

\* Python's  s.startswith(c)  for a one-character c
startswith(s, c) == Len(s) >= 1 /\ s[1] = c

\* Python's  s.split("!")[0] : the part before the first "!" (s when it has none)
SplitFirst(s) ==
    IF Contains(s, "!")
    THEN SubSeq(s, 1, (CHOOSE i \in 1..Len(s) :
                          s[i] = "!" /\ \A j \in 1..(i - 1) : s[j] # "!") - 1)
    ELSE s

\* f"{sheet_name}!{ref}"
Qualify(sheet_name, ref) == sheet_name \o <<"!">> \o ref

\* length of the run of characters of class cls that starts at s[i]
RECURSIVE RunLen(_, _, _)
RunLen(s, i, cls) ==
    IF i > Len(s) \/ s[i] \notin cls THEN 0 ELSE 1 + RunLen(s, i + 1, cls)

(***************************************************************************)
(* Function Usage Counter: stat_functions and the table functions_dict.    *)
(* The table is a function from names to counts; its domain is the set of  *)
(* keys of the Python dict (the order of the keys is not modelled).        *)
(***************************************************************************)
EmptyDict == [k \in {} |-> 0]

\* re.findall(r"[A-Z]+\(", s), scanning from position i: the matches, each
\* with its "(", left to right and not overlapping; k is the length of the
\* run of uppercase letters at s[i]
RECURSIVE findall_functions(_, _)
findall_at(s, i, k) ==
    IF k >= 1 /\ i + k <= Len(s) /\ s[i + k] = "("
    THEN <<SubSeq(s, i, i + k)>> \o findall_functions(s, i + k + 1)
    ELSE findall_functions(s, i + 1)

findall_functions(s, i) ==
    IF i > Len(s) THEN <<>> ELSE findall_at(s, i, RunLen(s, i, Upper))

\* the loop of stat_functions over the matches
RECURSIVE count_functions(_, _)
count_functions(dict, cellfuncs) ==
    IF cellfuncs = <<>> THEN dict
    ELSE LET function == SubSeq(Head(cellfuncs), 1, Len(Head(cellfuncs)) - 1)
         IN  count_functions(
                 IF function \in DOMAIN dict
                 THEN [dict EXCEPT ![function] = @ + 1]
                 ELSE dict @@ (function :> 1),
                 Tail(cellfuncs))

RECURSIVE ordered_unique_names(_)
ordered_unique_names(seq) ==
    IF seq = <<>> THEN <<>>
    ELSE IF \E i \in 2..Len(seq) : seq[i] = seq[1]
         THEN ordered_unique_names(Tail(seq))
         ELSE <<seq[1]>> \o ordered_unique_names(Tail(seq))

\* a counter that counts a name once per formula
stat_functions_once(dict, cellvalue) ==
    count_functions(dict, ordered_unique_names(findall_functions(cellvalue, 1)))

stat_functions(dict, cellvalue) ==
    count_functions(dict, findall_functions(cellvalue, 1))

(***************************************************************************)
(* Reference Extractor (excel_parser.extract_references, imported by       *)
(* graphbuilder.py): the address grammar and the range expansion, after    *)
(* sections 4.1 and 4.2 of the design. The ranges of the model's formulas  *)
(* are written top-left:bottom-right.                                      *)
(***************************************************************************)
SheetChars ==
    Upper \cup Digits \cup {"_", "-", "[", "]", " "} \cup
    {"a", "b", "c", "d", "e", "f", "g", "h", "i", "j", "k", "l", "m",
     "n", "o", "p", "q", "r", "s", "t", "u", "v", "w", "x", "y", "z"}

\* absolute-reference markers are stripped before matching
strip_dollar(s) == SelectSeq(s, LAMBDA c : c # "$")

\* a bare cell reference at s[p]: 1-3 uppercase letters, then 1 or more
\* digits; its length (0: none)
cell_length(r, d) == IF r \in 1..3 /\ d >= 1 THEN r + d ELSE 0

digits_after(s, p, r) == cell_length(r, RunLen(s, p + r, Digits))

CellLen(s, p) == digits_after(s, p, RunLen(s, p, Upper))

\* a cell or a range (cell:cell) at s[p]; the range is preferred
range_length(c1, c2) == IF c2 > 0 THEN c1 + 1 + c2 ELSE c1

ref_after_cell(s, p, c1) ==
    IF c1 > 0 /\ p + c1 <= Len(s) /\ s[p + c1] = ":"
    THEN range_length(c1, CellLen(s, p + c1 + 1))
    ELSE c1

RefLen(s, p) == ref_after_cell(s, p, CellLen(s, p))

\* a sheet qualifier at s[p], bare or in single quotes, with its "!"
quoted_prefix(s, p, m) ==
    IF m >= 1 /\ p + m + 2 <= Len(s) /\ s[p + m + 1] = "'" /\ s[p + m + 2] = "!"
    THEN m + 3 ELSE 0

bare_prefix(s, p, m) ==
    IF m >= 1 /\ p + m <= Len(s) /\ s[p + m] = "!" THEN m + 1 ELSE 0

SheetPrefixLen(s, p) ==
    IF p <= Len(s) /\ s[p] = "'"
    THEN quoted_prefix(s, p, RunLen(s, p + 1, SheetChars))
    ELSE bare_prefix(s, p, RunLen(s, p, SheetChars))

Min(a, b) == IF a <= b THEN a ELSE b

Max(a, b) == IF a >= b THEN a ELSE b

\* the longest reference that starts at s[p] (0: none)
qualified_length(q, r) == IF q > 0 /\ r > 0 THEN q + r ELSE 0

match_after_prefix(s, p, q) ==
    Max(qualified_length(q, RefLen(s, p + q)), RefLen(s, p))

MatchLen(s, p) == match_after_prefix(s, p, SheetPrefixLen(s, p))

\* the references of s from position p on, left to right; m is the length
\* of the match at s[p]
RECURSIVE scan_references(_, _)
scan_at(s, p, m) ==
    IF m > 0
    THEN <<SubSeq(s, p, p + m - 1)>> \o scan_references(s, p + m)
    ELSE scan_references(s, p + 1)

scan_references(s, p) ==
    IF p > Len(s) THEN <<>> ELSE scan_at(s, p, MatchLen(s, p))

\* ordered-unique: the first appearance of each entry is kept
append_unique(seq, x) ==
    IF \E i \in 1..Len(seq) : seq[i] = x THEN seq ELSE Append(seq, x)

RECURSIVE ordered_unique(_)
ordered_unique(seq) ==
    IF seq = <<>> THEN <<>>
    ELSE append_unique(ordered_unique(SubSeq(seq, 1, Len(seq) - 1)), seq[Len(seq)])

\* column letters <-> 1-based number (base 26 without a digit for zero)
LetterIndex(c) == CHOOSE i \in 1..26 : Alphabet[i] = c

RECURSIVE column_index(_)
column_index(letters) ==
    IF letters = <<>> THEN 0
    ELSE 26 * column_index(SubSeq(letters, 1, Len(letters) - 1))
         + LetterIndex(letters[Len(letters)])

RECURSIVE column_letter(_)
column_letter(n) ==
    IF n = 0 THEN <<>>
    ELSE column_letter((n - 1) \div 26) \o <<Alphabet[((n - 1) % 26) + 1]>>

\* decimal digits <-> number
DigitValue(c) == (CHOOSE i \in 1..10 : DigitChars[i] = c) - 1

RECURSIVE row_number(_)
row_number(digits) ==
    IF digits = <<>> THEN 0
    ELSE 10 * row_number(SubSeq(digits, 1, Len(digits) - 1))
         + DigitValue(digits[Len(digits)])

RECURSIVE row_string(_)
row_string(n) ==
    IF n < 10 THEN <<DigitChars[n + 1]>>
    ELSE row_string(n \div 10) \o <<DigitChars[(n % 10) + 1]>>

\* the column and the row of a bare cell reference
column_of(cell) == column_index(SubSeq(cell, 1, RunLen(cell, 1, Upper)))

row_of(cell) == row_number(SubSeq(cell, RunLen(cell, 1, Upper) + 1, Len(cell)))

\* position of the first c in s (0: none)
IndexOf(s, c) ==
    IF Contains(s, c)
    THEN CHOOSE i \in 1..Len(s) : s[i] = c /\ \A j \in 1..(i - 1) : s[j] # c
    ELSE 0

\* the cells of the block of columns cmin..cmax and rows rmin..rmax, each
\* behind prefix: columns from min to max, and rows from min to max
box_cells(prefix, cmin, cmax, rmin, rmax) ==
    [k \in 1..((cmax - cmin + 1) * (rmax - rmin + 1)) |->
        prefix \o column_letter(cmin + ((k - 1) \div (rmax - rmin + 1)))
               \o row_string(rmin + ((k - 1) % (rmax - rmin + 1)))]

\* the corners are normalized before the expansion
expand_corners(prefix, start_cell, end_cell) ==
    box_cells(prefix,
              Min(column_of(start_cell), column_of(end_cell)),
              Max(column_of(start_cell), column_of(end_cell)),
              Min(row_of(start_cell), row_of(end_cell)),
              Max(row_of(start_cell), row_of(end_cell)))

expand_body(prefix, body) ==
    expand_corners(prefix, SubSeq(body, 1, IndexOf(body, ":") - 1),
                   SubSeq(body, IndexOf(body, ":") + 1, Len(body)))

\* the member cells of a range reference, each with the range's sheet
\* qualifier when it has one
expand_range(rng) ==
    expand_body(SubSeq(rng, 1, IndexOf(rng, "!")),
                SubSeq(rng, IndexOf(rng, "!") + 1, Len(rng)))

\* d[key] = val on a dict kept as a sequence of <<key, value>> in insertion
\* order: a key that is present keeps its place and takes the new value
dict_set(d, key, val) ==
    IF \E i \in 1..Len(d) : d[i][1] = key
    THEN [i \in 1..Len(d) |-> IF d[i][1] = key THEN <<key, val>> ELSE d[i]]
    ELSE Append(d, <<key, val>>)

\* every cell of cells, from the k-th on, is mapped to rng
RECURSIVE put_cells(_, _, _, _)
put_cells(d, cells, rng, k) ==
    IF k > Len(cells) THEN d
    ELSE put_cells(dict_set(d, cells[k], rng), cells, rng, k + 1)

\* the mapping member cell -> owning range over the ranges found, in order:
\* a cell of two ranges is mapped to the later one
RECURSIVE range_members(_)
range_members(ranges) ==
    IF ranges = <<>> THEN <<>>
    ELSE put_cells(range_members(SubSeq(ranges, 1, Len(ranges) - 1)),
                   expand_range(ranges[Len(ranges)]), ranges[Len(ranges)], 1)

is_range(ref) == Contains(ref, ":")

is_single_cell(ref) == ~Contains(ref, ":")

classify_references(found) ==
    [direct |-> ordered_unique(SelectSeq(found, is_single_cell)),
     ranges |-> ordered_unique(SelectSeq(found, is_range)),
     deps   |-> range_members(SelectSeq(found, is_range))]

\* (direct_references, range_references, range_dependencies) of a formula
extract_references(formula) ==
    classify_references(scan_references(strip_dollar(formula), 1))

(***************************************************************************)
(* The graph (networkx.DiGraph as the Builder uses it): the nodes in       *)
(* insertion order, the attribute sheet of each node (the empty string     *)
(* when it has none) and the edges in insertion order.                     *)
(***************************************************************************)
EmptyGraph == [nodes |-> <<>>, attr |-> [k \in {} |-> <<>>], edges |-> <<>>]

NodeSet(G) == Range(G.nodes)

EdgeSet(G) == Range(G.edges)

\* graph.add_node(n, sheet=sheet): a new node is appended, a node that is
\* present keeps its place and its edges and takes the new attribute
add_node(G, n, sheet) ==
    [nodes |-> IF n \in NodeSet(G) THEN G.nodes ELSE Append(G.nodes, n),
     attr  |-> IF n \in DOMAIN G.attr
               THEN [G.attr EXCEPT ![n] = sheet]
               ELSE G.attr @@ (n :> sheet),
     edges |-> G.edges]

\* a node added by add_edge alone has no attribute
touch_node(G, n) == IF n \in NodeSet(G) THEN G ELSE add_node(G, n, <<>>)

\* add_edge of a multigraph: every call adds an edge
add_edge_multi(G, u, v) ==
    [touch_node(touch_node(G, u), v) EXCEPT !.edges = Append(@, <<u, v>>)]

\* graph.add_edge(u, v): both ends become nodes, and the pair (u, v) is the
\* key of the edge, so adding it again leaves one edge
add_edge(G, u, v) ==
    LET H == touch_node(touch_node(G, u), v)
    IN  [H EXCEPT !.edges = IF <<u, v>> \in Range(H.edges)
                            THEN H.edges ELSE Append(H.edges, <<u, v>>)]

\* graph.number_of_nodes(), graph.number_of_edges()
number_of_nodes(G) == Len(G.nodes)

number_of_edges(G) == Len(G.edges)

\* the out-degree alone
out_degree_only(G, n) == Cardinality({i \in 1..Len(G.edges) : G.edges[i][1] = n})

\* graph.degree(): in-degree + out-degree (a self-loop counts in both)
degree(G, n) ==
    Cardinality({i \in 1..Len(G.edges) : G.edges[i][1] = n})
    + Cardinality({i \in 1..Len(G.edges) : G.edges[i][2] = n})

(***************************************************************************)
(* Dependency Graph Builder: the body of the cell loop of                  *)
(* extract_formulas_and_build_dependencies.                                *)
(***************************************************************************)
\* isinstance(cell.value, str) and cell.value.startswith("=")
is_formula(value) == value.kind = "str" /\ startswith(value.text, "=")

\* every reference is taken on the current sheet, qualified or not
resolve_always(sheet_name, ref) == Qualify(sheet_name, ref)

\* an unqualified reference is taken on the current sheet
resolve(sheet_name, ref) ==
    IF ~Contains(ref, "!") THEN Qualify(sheet_name, ref) ELSE ref

\* the sheet a reference is on: the current sheet when it is unqualified
sheet_of(sheet_name, ref) ==
    IF ~Contains(ref, "!") THEN sheet_name ELSE SplitFirst(ref)

\* the formula cell is left to the loops over its references
add_formula_cell_skipped(G, current_cell, sheet_name) == G

\* graph.add_node(current_cell, sheet=sheet_name)
add_formula_cell(G, current_cell, sheet_name) == add_node(G, current_cell, sheet_name)

\* the loop with a reference to the formula's own cell left out
RECURSIVE add_direct_references_no_self(_, _, _, _)
add_direct_references_no_self(G, sheet_name, current_cell, refs) ==
    IF refs = <<>> THEN G
    ELSE LET refc == resolve(sheet_name, Head(refs))
         IN  add_direct_references_no_self(
                 IF refc = current_cell THEN G
                 ELSE add_edge(add_node(G, refc, sheet_name), current_cell, refc),
                 sheet_name, current_cell, Tail(refs))

\* the loop with node and edge added only for a reference that is new
RECURSIVE add_direct_references_new_only(_, _, _, _)
add_direct_references_new_only(G, sheet_name, current_cell, refs) ==
    IF refs = <<>> THEN G
    ELSE LET refc == resolve(sheet_name, Head(refs))
         IN  add_direct_references_new_only(
                 IF refc \in NodeSet(G) THEN G
                 ELSE add_edge(add_node(G, refc, sheet_name), current_cell, refc),
                 sheet_name, current_cell, Tail(refs))

\* for ref_cell in direct_references
RECURSIVE add_direct_references(_, _, _, _)
add_direct_references(G, sheet_name, current_cell, refs) ==
    IF refs = <<>> THEN G
    ELSE LET refc == resolve(sheet_name, Head(refs))
         IN  add_direct_references(
                 add_edge(add_node(G, refc, sheet_name), current_cell, refc),
                 sheet_name, current_cell, Tail(refs))

\* for rng in range_references
RECURSIVE add_range_references(_, _, _, _)
add_range_references(G, sheet_name, current_cell, ranges) ==
    IF ranges = <<>> THEN G
    ELSE LET rng == resolve(sheet_name, Head(ranges))
         IN  add_range_references(
                 add_edge(add_node(G, rng, sheet_name), current_cell, rng),
                 sheet_name, current_cell, Tail(ranges))

\* the edge from the member to its range
add_member_edge_reversed(G, range_ref, single_cell) == add_edge(G, single_cell, range_ref)

\* graph.add_edge(range_ref, single_cell)
add_member_edge(G, range_ref, single_cell) == add_edge(G, range_ref, single_cell)

\* for single_cell, range_ref in range_dependencies.items()
RECURSIVE add_range_dependencies(_, _, _)
add_range_dependencies(G, sheet_name, deps) ==
    IF deps = <<>> THEN G
    ELSE LET range_ref   == resolve(sheet_name, Head(deps)[2])
             range_sheet == sheet_of(sheet_name, Head(deps)[2])
             single_cell == resolve(sheet_name, Head(deps)[1])
             cell_sheet  == sheet_of(sheet_name, Head(deps)[1])
             G1 == add_node(G, single_cell, cell_sheet)
             G2 == add_node(G1, range_ref, range_sheet)
         IN  add_range_dependencies(
                 add_member_edge(G2, range_ref, single_cell),
                 sheet_name, Tail(deps))

\* the three loops over what the extractor returned
add_references(G, sheet_name, current_cell, refs) ==
    add_range_dependencies(
        add_range_references(
            add_direct_references(G, sheet_name, current_cell, refs.direct),
            sheet_name, current_cell, refs.ranges),
        sheet_name, refs.deps)

\* the body of the loop for one formula cell, after stat_functions
build_dependencies(G, sheet_name, coordinate, formula) ==
    add_references(
        add_formula_cell(G, Qualify(sheet_name, coordinate), sheet_name),
        sheet_name, Qualify(sheet_name, coordinate), extract_references(formula))

(***************************************************************************)
(* Summary Reporter: the nodes with the highest degree.                    *)
(***************************************************************************)
TopCount == 10

\* dict(graph.degree()): <<node, degree>> in the order of the nodes
degree_items(G) == [i \in 1..Len(G.nodes) |-> <<G.nodes[i], degree(G, G.nodes[i])>>]

\* sorted(items, key=count, reverse=True): a stable sort, so items of equal
\* count keep their order
RECURSIVE sorted_by_count(_)
sorted_by_count(items) ==
    IF items = <<>> THEN <<>>
    ELSE LET rest == sorted_by_count(SubSeq(items, 1, Len(items) - 1))
             x == items[Len(items)]
             \* x goes behind every item of a count >= its own
             k == Cardinality({i \in 1..Len(rest) : rest[i][2] >= x[2]})
         IN  SubSeq(rest, 1, k) \o <<x>> \o SubSeq(rest, k + 1, Len(rest))

\* Counter(items).most_common(n)
most_common(items, n) == SubSeq(sorted_by_count(items), 1, Min(n, Len(items)))

(***************************************************************************)
(* The workbooks of the model: what load_workbook hands to the Builder.    *)
(* A workbook is a sequence of sheets with distinct names; ws.iter_rows()  *)
(* yields the cells of a sheet from A1 on, here the cells of row 1.        *)
(***************************************************************************)
SheetNames == {<<"S">>, <<"T">>}

\* an empty cell (value None)
NoValue == [kind |-> "none", text |-> <<>>]

\* a text cell that is no formula: SUM(A1)
PlainText == [kind |-> "str", text |-> <<"S", "U", "M", "(", "A", "1", ")">>]

\* =1
FormulaConst == [kind |-> "str", text |-> <<"=", "1">>]

\* =A1+S!A1
FormulaDirect ==
    [kind |-> "str", text |-> <<"=", "A", "1", "+", "S", "!", "A", "1">>]

\* =SUM(A1:A2)+SUM(A2:A3)
FormulaRanges ==
    [kind |-> "str",
     text |-> <<"=", "S", "U", "M", "(", "A", "1", ":", "A", "2", ")", "+",
                "S", "U", "M", "(", "A", "2", ":", "A", "3", ")">>]

\* =MAX($B$1,T!A1:B1)
FormulaMixed ==
    [kind |-> "str",
     text |-> <<"=", "M", "A", "X", "(", "$", "B", "$", "1", ",",
                "T", "!", "A", "1", ":", "B", "1", ")">>]

Values ==
    {NoValue, PlainText, FormulaConst, FormulaDirect, FormulaRanges, FormulaMixed}

\* the values of the workbooks of a process that calls the Builder again
CallValues == {NoValue, FormulaDirect, FormulaRanges}

\* the orders of sheets: the sequences of distinct sheet names
SheetOrders ==
    {q \in UNION {[1..n -> SheetNames] : n \in 1..Cardinality(SheetNames)} :
        \A i, j \in 1..Len(q) : q[i] = q[j] => i = j}

\* sizes[1] + ... + sizes[i]
RECURSIVE SumTo(_, _)
SumTo(sizes, i) == IF i = 0 THEN 0 ELSE SumTo(sizes, i - 1) + sizes[i]

\* the workbook of the sheets of order, the i-th with the cells A1, B1, ...
\* of sizes[i] values taken from v in turn
MakeWorkbook(order, sizes, v) ==
    [i \in 1..Len(order) |->
        [name |-> order[i],
         cells |-> [j \in 1..sizes[i] |->
                      [coordinate |-> column_letter(j) \o <<"1">>,
                       value |-> v[SumTo(sizes, i - 1) + j]]]]]

\* book is a workbook of at most maxcells cells in all, of values in vals
IsWorkbook(book, maxcells, vals) ==
    \E order \in SheetOrders :
        \E sizes \in [1..Len(order) -> 1..maxcells] :
            /\ SumTo(sizes, Len(order)) <= maxcells
            /\ \E v \in [1..SumTo(sizes, Len(order)) -> vals] :
                   book = MakeWorkbook(order, sizes, v)

\* the (sheet_name, cell) pairs in the order of the two loops of the scan
RECURSIVE Triples(_)
Triples(book) ==
    IF book = <<>> THEN <<>>
    ELSE [i \in 1..Len(book[1].cells) |->
            [sheet |-> book[1].name,
             coordinate |-> book[1].cells[i].coordinate,
             value |-> book[1].cells[i].value]]
         \o Triples(Tail(book))

\* the same sheets in another order
Reorderings(book) ==
    {[i \in 1..Len(book) |-> book[p[i]]] :
        p \in {q \in [1..Len(book) -> 1..Len(book)] :
                 \A i, j \in 1..Len(book) : q[i] = q[j] => i = j}}

(***************************************************************************)
(* One process: extract_formulas_and_build_dependencies(file_path), then   *)
(* print_summary.                                                          *)
(***************************************************************************)
NoRun ==
    [set |-> FALSE, book |-> <<>>, order |-> <<>>, nodes |-> {}, edges |-> {},
     functions |-> EmptyDict]

\* a table that every call empties
table_reset(dict) == EmptyDict

\* the table a later call of the Builder finds: the one the process holds
table_at_call(dict) == dict

InitWith(maxcells, vals) ==
    /\ IsWorkbook(wb, maxcells, vals)
    /\ idx = 0
    /\ graph = EmptyGraph
    /\ functions_dict = EmptyDict
    /\ report = <<>>
    /\ pc = "scan"
    /\ prev = NoRun
    /\ scanned = EmptyBag
    /\ calls = 1

Init == InitWith(MaxCells, Values)

\* a cell that holds no formula is passed over
SkipCell ==
    /\ pc = "scan"
    /\ LET cells == Triples(wb)
       IN  /\ idx < Len(cells)
           /\ ~is_formula(cells[idx + 1].value)
           /\ scanned' = scanned (+) SetToBag({cells[idx + 1].value})
    /\ idx' = idx + 1
    /\ UNCHANGED <<wb, graph, functions_dict, report, pc, prev, calls>>

\* a formula cell: the function counter, then the nodes and edges
FormulaCell ==
    /\ pc = "scan"
    /\ LET cells == Triples(wb)
           cell == cells[idx + 1]
       IN  /\ idx < Len(cells)
           /\ is_formula(cell.value)
           /\ functions_dict' = stat_functions(functions_dict, cell.value.text)
           /\ graph' = build_dependencies(graph, cell.sheet, cell.coordinate,
                                          cell.value.text)
           /\ scanned' = scanned (+) SetToBag({cell.value})
    /\ idx' = idx + 1
    /\ UNCHANGED <<wb, report, pc, prev, calls>>

\* return graph
Return ==
    /\ pc = "scan"
    /\ idx = Len(Triples(wb))
    /\ pc' = "returned"
    /\ UNCHANGED <<wb, idx, graph, functions_dict, report, prev, scanned, calls>>

\* print_summary(dependency_graph, functions_dict)
PrintSummary ==
    /\ pc = "returned"
    /\ report' = most_common(degree_items(graph), TopCount)
    /\ pc' = "reported"
    /\ UNCHANGED <<wb, idx, graph, functions_dict, prev, scanned, calls>>

Next == SkipCell \/ FormulaCell \/ Return \/ PrintSummary

Spec == Init /\ [][Next]_vars

(***************************************************************************)
(* Two processes over the same workbook, the sheets in any two orders: the *)
(* result of the first is kept in prev, the second starts from a fresh     *)
(* graph and a fresh table.                                                *)
(***************************************************************************)
RunAgain ==
    /\ pc = "returned"
    /\ ~prev.set
    /\ prev' = [set |-> TRUE, book |-> wb, order |-> graph.nodes,
                nodes |-> NodeSet(graph), edges |-> EdgeSet(graph),
                functions |-> functions_dict]
    /\ wb' \in Reorderings(wb)
    /\ idx' = 0
    /\ graph' = EmptyGraph
    /\ functions_dict' = EmptyDict
    /\ scanned' = EmptyBag
    /\ pc' = "scan"
    /\ UNCHANGED <<report, calls>>

NextOrder == SkipCell \/ FormulaCell \/ Return \/ RunAgain

SpecOrder == Init /\ [][NextOrder]_vars

(***************************************************************************)
(* One process that calls the Builder several times: each call makes its   *)
(* own graph, the table functions_dict is the module's.                    *)
(***************************************************************************)
InitCalls == InitWith(MaxCallCells, CallValues)

CallAgain ==
    /\ pc = "returned"
    /\ calls < MaxCalls
    /\ calls' = calls + 1
    /\ IsWorkbook(wb', MaxCallCells, CallValues)
    /\ idx' = 0
    /\ graph' = EmptyGraph
    /\ functions_dict' = table_at_call(functions_dict)
    /\ pc' = "scan"
    /\ UNCHANGED <<report, prev, scanned>>

NextCalls == SkipCell \/ FormulaCell \/ Return \/ CallAgain

SpecCalls == InitCalls /\ [][NextCalls]_vars

(***************************************************************************)
(* What the claims speak of.                                               *)
(***************************************************************************)
\* a formula cell: its value is a string that starts with "="
HoldsFormula(c) ==
    c.value.kind = "str" /\ Len(c.value.text) >= 1 /\ c.value.text[1] = "="

\* the cells of the workbook, and the formula cells among them that the
\* scan has processed so far
AllCells == Range(Triples(wb))

Processed == {c \in Range(SubSeq(Triples(wb), 1, idx)) : HoldsFormula(c)}

\* the address sheetName!coordinate of a cell
KeyOf(c) == c.sheet \o <<"!">> \o c.coordinate

\* what the extractor returns for each text of the model's cells, and for
\* the formula of each processed cell
Extracted == [v \in Values |-> extract_references(v.text)]

RefsOfProcessed == [c \in Processed |-> Extracted[c.value]]

\* resolve(R) for a reference R of the formula of the cell c
Resolved(c, R) == IF "!" \in Range(R) THEN R ELSE c.sheet \o <<"!">> \o R

OutNeighbours(n) == {e[2] : e \in {f \in EdgeSet(graph) : f[1] = n}}

InNeighbours(n) == {e[1] : e \in {f \in EdgeSet(graph) : f[2] = n}}

\* C1: every formula cell S!C that has been processed has an edge to the
\* resolved form of each direct reference and each range reference of its
\* formula (R itself when R holds "!", S!R otherwise), and these are all the
\* out-neighbours of S!C.
C1_SheetDefaulting ==
    LET refs == RefsOfProcessed
    IN  \A c \in Processed :
            OutNeighbours(KeyOf(c)) =
                {Resolved(c, R) : R \in Range(refs[c].direct) \cup Range(refs[c].ranges)}

\* a finished scan with a formula on sheet T that has an unqualified
\* reference, a reference qualified with another sheet and the edges to both,
\* and a formula with a range reference
C1_Witness ==
    /\ pc = "returned"
    /\ \E c \in Processed :
         /\ c.sheet = <<"T">>
         /\ <<"A", "1">> \in Range(RefsOfProcessed[c].direct)
         /\ <<"S", "!", "A", "1">> \in Range(RefsOfProcessed[c].direct)
         /\ <<KeyOf(c), <<"T", "!", "A", "1">>>> \in EdgeSet(graph)
         /\ <<KeyOf(c), <<"S", "!", "A", "1">>>> \in EdgeSet(graph)
    /\ \E c \in Processed : RefsOfProcessed[c].ranges # <<>>

\* C2: for every pair (member cell, owning range) of the rangeMembers of a
\* processed formula the graph holds the edge resolved range -> resolved
\* member, and the out-neighbours of the node of a range reference are
\* exactly the members that the rangeMembers of the processed formulas map
\* to that range.
C2_RangeMemberEdges ==
    LET refs == RefsOfProcessed
        member_edges ==
            UNION {{<<Resolved(c, d[2]), Resolved(c, d[1])>> : d \in Range(refs[c].deps)}
                     : c \in Processed}
        range_nodes ==
            UNION {{Resolved(c, r) : r \in Range(refs[c].ranges)} : c \in Processed}
    IN  /\ member_edges \subseteq EdgeSet(graph)
        /\ \A n \in range_nodes :
             /\ n \in NodeSet(graph)
             /\ OutNeighbours(n) = {e[2] : e \in {f \in member_edges : f[1] = n}}

\* a finished scan with a range of the formula's own sheet and a range of
\* another sheet, each with the edges to its two members
C2_Witness ==
    /\ pc = "returned"
    /\ OutNeighbours(<<"S", "!", "A", "2", ":", "A", "3">>) =
           {<<"S", "!", "A", "2">>, <<"S", "!", "A", "3">>}
    /\ \E c \in Processed :
         /\ c.sheet = <<"S">>
         /\ <<"T", "!", "A", "1", ":", "B", "1">> \in Range(RefsOfProcessed[c].ranges)
    /\ OutNeighbours(<<"T", "!", "A", "1", ":", "B", "1">>) =
           {<<"T", "!", "A", "1">>, <<"T", "!", "B", "1">>}

\* the resolved direct references, range references and range members of
\* the formulas processed so far
ReferencedKeys ==
    LET refs == RefsOfProcessed
    IN  UNION {{Resolved(c, R) : R \in Range(refs[c].direct) \cup Range(refs[c].ranges)}
                 \cup {Resolved(c, d[1]) : d \in Range(refs[c].deps)}
                 : c \in Processed}

\* C3: a key is a node if and only if it is the address of a processed
\* formula cell or the resolved form of a direct reference, a range
\* reference or a range member of a processed formula; after the scan every
\* formula cell is a node, also one without references, and a cell without
\* a formula that no formula references is none.
C3_NodeSet ==
    LET referenced == ReferencedKeys
    IN  /\ NodeSet(graph) = {KeyOf(c) : c \in Processed} \cup referenced
        /\ pc # "scan" =>
             \A c \in AllCells :
                /\ HoldsFormula(c) => KeyOf(c) \in NodeSet(graph)
                /\ (~HoldsFormula(c) /\ KeyOf(c) \notin referenced)
                   => KeyOf(c) \notin NodeSet(graph)

\* a finished scan with an isolated formula cell, a cell without a formula
\* that is no node, and a node that is no formula cell
C3_Witness ==
    /\ pc = "returned"
    /\ \E c \in Processed :
         /\ RefsOfProcessed[c] = [direct |-> <<>>, ranges |-> <<>>, deps |-> <<>>]
         /\ KeyOf(c) \in NodeSet(graph)
         /\ OutNeighbours(KeyOf(c)) = {} /\ InNeighbours(KeyOf(c)) = {}
    /\ \E c \in AllCells : ~HoldsFormula(c) /\ KeyOf(c) \notin NodeSet(graph)
    /\ NodeSet(graph) # {KeyOf(c) : c \in Processed}

\* C4: the node of every processed formula cell carries the attribute
\* sheet = the name of the sheet that contains the cell.
C4_SheetAttribute ==
    \A c \in Processed : graph.attr[KeyOf(c)] = c.sheet

\* the positions of s where a function call ends: a "(" right behind an
\* uppercase letter
CallsIn(s) == {j \in 2..Len(s) : s[j] = "(" /\ s[j - 1] \in Upper}

\* the name of the call that ends at s[j]: the uppercase letters before it
NameAt(s, j) ==
    SubSeq(s,
           CHOOSE a \in 1..(j - 1) :
               /\ \A b \in a..(j - 1) : s[b] \in Upper
               /\ (a = 1 \/ s[a - 1] \notin Upper),
           j - 1)

\* the occurrences of the name in the formulas processed so far
OccurrencesSoFar(name) ==
    UNION {{<<c, j>> : j \in {i \in CallsIn(c.value.text) :
                                NameAt(c.value.text, i) = name}}
             : c \in Processed}

NamesSoFar ==
    UNION {{NameAt(c.value.text, j) : j \in CallsIn(c.value.text)} : c \in Processed}

\* C5: in a process that scans one workbook the table holds, for every
\* name, the number of its occurrences in the formula cells processed so
\* far, and no other name: the counter has run once for each formula cell
\* and for no other cell.
C5_FunctionCounts ==
    /\ DOMAIN functions_dict = NamesSoFar
    /\ \A name \in DOMAIN functions_dict :
         functions_dict[name] = Cardinality(OccurrencesSoFar(name))

\* a finished scan over a formula with two calls of SUM, a formula without
\* a call and a text cell  SUM(A1)  that is no formula
C5_Witness ==
    /\ pc = "returned"
    /\ <<"S", "U", "M">> \in DOMAIN functions_dict
    /\ functions_dict[<<"S", "U", "M">>] = 2
    /\ \E c \in Processed : CallsIn(c.value.text) = {}
    /\ \E c \in AllCells : c.value = PlainText

\* the cell that a step of the scan processes
StepCell == Triples(wb)[idx + 1]

\* C6: a step of the scan removes no node and no edge, and the step that
\* processes a formula with a reference to its own cell leaves the
\* self-edge in the graph.
C6_NothingRemoved ==
    [][/\ NodeSet(graph) \subseteq NodeSet(graph')
       /\ EdgeSet(graph) \subseteq EdgeSet(graph')
       /\ (/\ idx' = idx + 1
           /\ HoldsFormula(StepCell)
           /\ \E R \in Range(Extracted[StepCell.value].direct) :
                Resolved(StepCell, R) = KeyOf(StepCell))
          => <<KeyOf(StepCell), KeyOf(StepCell)>> \in EdgeSet(graph')]_vars

\* a finished scan with the self-edge of a formula that references its own
\* cell, and a cycle of a formula cell and a range that holds it
C6_Witness ==
    /\ pc = "returned"
    /\ \E c \in Processed :
         /\ \E R \in Range(RefsOfProcessed[c].direct) : Resolved(c, R) = KeyOf(c)
         /\ <<KeyOf(c), KeyOf(c)>> \in EdgeSet(graph)
    /\ \E c \in Processed : \E n \in NodeSet(graph) :
         /\ n # KeyOf(c)
         /\ <<KeyOf(c), n>> \in EdgeSet(graph)
         /\ <<n, KeyOf(c)>> \in EdgeSet(graph)

C8_SimpleDigraph ==
    /\ number_of_edges(graph) = Cardinality(EdgeSet(graph))
    /\ number_of_nodes(graph) = Cardinality(NodeSet(graph))

\* a finished scan with a formula that reaches one target twice, once
\* unqualified and once qualified with its own sheet
C8_Witness ==
    /\ pc = "returned"
    /\ \E c \in Processed : \E R1, R2 \in Range(RefsOfProcessed[c].direct) :
         /\ R1 # R2
         /\ Resolved(c, R1) = Resolved(c, R2)
         /\ Resolved(c, R1) # KeyOf(c)
         /\ <<KeyOf(c), Resolved(c, R1)>> \in EdgeSet(graph)

\* the place of a node in the order of insertion
PlaceOf(n) == CHOOSE i \in 1..Len(graph.nodes) : graph.nodes[i] = n

TotalDegree(n) ==
    Cardinality({e \in EdgeSet(graph) : e[1] = n})
    + Cardinality({e \in EdgeSet(graph) : e[2] = n})

\* x comes before y in the report: a higher degree, or the same degree and
\* an earlier insertion
Before(x, y) ==
    \/ TotalDegree(x) > TotalDegree(y)
    \/ TotalDegree(x) = TotalDegree(y) /\ PlaceOf(x) < PlaceOf(y)

\* C9: the report lists 10 nodes (all nodes if there are fewer), each with
\* its in-degree + out-degree, by descending degree and, at equal degree,
\* in the order of insertion; no node left out comes before a listed one.
C9_TopDegree ==
    pc = "reported" =>
        /\ Len(report) = Min(TopCount, Cardinality(NodeSet(graph)))
        /\ \A i \in 1..Len(report) :
             /\ report[i][1] \in NodeSet(graph)
             /\ report[i][2] = TotalDegree(report[i][1])
        /\ \A i, j \in 1..Len(report) :
             i < j => Before(report[i][1], report[j][1])
        /\ \A n \in NodeSet(graph) :
             (\A i \in 1..Len(report) : report[i][1] # n)
                => \A i \in 1..Len(report) : Before(report[i][1], n)

\* a report over more than 10 nodes, with two listed nodes of one degree
\* below the highest and a node left out that has the degree of the last
\* listed node
C9_Witness ==
    /\ pc = "reported"
    /\ number_of_nodes(graph) > TopCount
    /\ \E i \in 1..(Len(report) - 1) :
         /\ report[i][2] = report[i + 1][2]
         /\ report[i][2] # report[1][2]
    /\ \E n \in NodeSet(graph) :
         /\ \A i \in 1..Len(report) : report[i][1] # n
         /\ TotalDegree(n) = report[Len(report)][2]

\* the formula values among the cells that the calls of this process have
\* scanned
FormulasScanned ==
    {v \in BagToSet(scanned) : v.kind = "str" /\ Len(v.text) >= 1 /\ v.text[1] = "="}

\* the occurrences of the name in the formulas of all the cells scanned
OccurrencesScanned(name) ==
    UNION {{<<v, c, j>> : c \in 1..CopiesIn(v, scanned),
                          j \in {i \in CallsIn(v.text) : NameAt(v.text, i) = name}}
             : v \in FormulasScanned}

\* C10: over the calls of one process the table holds, for every name, the
\* number of its occurrences in the formula cells of all scans so far, and
\* every call starts from an empty graph and fills it from its own
\* workbook alone.
C10_TableLifetime ==
    /\ DOMAIN functions_dict =
           UNION {{NameAt(v.text, j) : j \in CallsIn(v.text)} : v \in FormulasScanned}
    /\ \A name \in DOMAIN functions_dict :
         functions_dict[name] = Cardinality(OccurrencesScanned(name))
    /\ idx = 0 => graph = EmptyGraph
    /\ NodeSet(graph) \subseteq {KeyOf(c) : c \in AllCells} \cup ReferencedKeys

\* the second call is finished: the table counts the calls of SUM of both
\* workbooks, the graph holds the nodes of the second alone
C10_Witness ==
    /\ calls = 2
    /\ pc = "returned"
    /\ <<"S", "U", "M">> \in DOMAIN functions_dict
    /\ functions_dict[<<"S", "U", "M">>] = 4
    /\ Cardinality(OccurrencesSoFar(<<"S", "U", "M">>)) = 2
    /\ <<"T", "!", "A", "1">> \notin NodeSet(graph)

====
